---- MODULE Spec2Model ----
(***************************************************************************)
(* The agent workflow graph of src/src/graph/langGraph.ts: the AgentState  *)
(* channels, the nine nodes, the two conditional edges and processQuery.   *)
(* One run of processQuery is one behaviour.  The language model, the      *)
(* responders' data sources and the judge are external: every answer they  *)
(* can give is drawn from a small set, and every call to callOpenAI made   *)
(* directly by a node may fail.                                            *)
(***************************************************************************)
EXTENDS Integers, Sequences, FiniteSets, TLC

VARIABLES query, topic, needsRerouting, agentResponses, finalResponse,
          currentAgent, history, pc, lastCall, result,
          agentInstances, reply, cancelled, other

\* The run in the foreground: the AgentState channels, the node that is
\* next, the external call the last node made and what processQuery returned.
run == <<query, topic, needsRerouting, agentResponses, finalResponse,
         currentAgent, history, pc, lastCall, result>>

\* agentInstances: the module's five agent objects, shared by every run.
\* reply: what the /api/query handler sent.  cancelled: the caller has given
\* up on the request.  other: a second run of processQuery, suspended.
vars == <<query, topic, needsRerouting, agentResponses, finalResponse,
          currentAgent, history, pc, lastCall, result,
          agentInstances, reply, cancelled, other>>

(***************************************************************************)
(* Bounds                                                                  *)
(***************************************************************************)
\* Nodes one invocation may execute before the model stops scheduling; the
\* graph as written executes at most 15 (see MaxVisitsNotReached).
MaxVisits == 16

\* Responder executions of one run that may go wrong (see FaultyReplies).
MaxResponderFaults == 1

\* Nodes two interleaved invocations may execute, both taken together.
MaxInterleavedVisits == 7

(***************************************************************************)
(* Values                                                                  *)
(***************************************************************************)
\* JavaScript null / undefined
Null == "<null>"

Agents == {"weather", "sports", "news", "stocks", "health"}

\* Text that drives control flow is a sequence of characters, so that
\* toLowerCase, trim, includes and === are computed character by character.
AgentText ==
  [ weather |-> <<"w","e","a","t","h","e","r">>,
    sports  |-> <<"s","p","o","r","t","s">>,
    news    |-> <<"n","e","w","s">>,
    stocks  |-> <<"s","t","o","c","k","s">>,
    health  |-> <<"h","e","a","l","t","h">> ]

CompleteText == <<"c","o","m","p","l","e","t","e">>

\* The string a sequence of characters spells: the value the code stores
\* in currentAgent and uses as a key.
RECURSIVE str(_)
str(s) == IF s = <<>> THEN "" ELSE Head(s) \o str(Tail(s))

UpperCase == <<"A","B","C","D","E","F","G","H","I","J","K","L","M",
               "N","O","P","Q","R","S","T","U","V","W","X","Y","Z">>
LowerCase == <<"a","b","c","d","e","f","g","h","i","j","k","l","m",
               "n","o","p","q","r","s","t","u","v","w","x","y","z">>
WhiteSpace == {" ", "\n", "\t"}

\* String.prototype.toLowerCase
toLowerCase(s) ==
  [i \in 1..Len(s) |->
     IF \E k \in 1..26 : UpperCase[k] = s[i]
       THEN LowerCase[CHOOSE k \in 1..26 : UpperCase[k] = s[i]]
       ELSE s[i]]

RECURSIVE trimStart(_)
trimStart(s) ==
  IF s # <<>> /\ Head(s) \in WhiteSpace THEN trimStart(Tail(s)) ELSE s

RECURSIVE trimEnd(_)
trimEnd(s) ==
  IF s # <<>> /\ s[Len(s)] \in WhiteSpace
    THEN trimEnd(SubSeq(s, 1, Len(s) - 1)) ELSE s

\* String.prototype.trim
trim(s) == trimEnd(trimStart(s))

\* String.prototype.includes
includes(s, sub) ==
  \E i \in 0..(Len(s) - Len(sub)) : SubSeq(s, i + 1, i + Len(sub)) = sub

(***************************************************************************)
(* External answers                                                        *)
(***************************************************************************)
Queries == {"q1"}

\* What the classifier model may answer (analyzerNode's callOpenAI).
ClassifierOutputs ==
  { AgentText.weather,
    <<" ","S","p","o","r","t","s","\n">>,
    AgentText.news,
    AgentText.stocks,
    <<"H","E","A","L","T","H">>,
    <<"s","t","o","c","k","s"," ","n","e","w","s">>,
    <<"h","e","a","l","t","h",",","w","e","a","t","h","e","r">>,
    <<"o","t","h","e","r">>,
    <<>> }

\* What the judge model may answer (evaluatorNode's callOpenAI).
JudgeOutputs ==
  { <<"C","O","M","P","L","E","T","E">>,
    AgentText.weather,
    <<" ","S","p","o","r","t","s","\n">>,
    AgentText.news,
    <<"S","T","O","C","K","S">>,
    AgentText.health,
    <<"s","p","o","r","t","s",".">>,
    <<>> }

\* The message callOpenAI throws (src/src/api/openai.ts:38).
LLMError == "Failed to get response from language model"

\* What the model may answer to a responder's final prompt.
LLMAnswer == "answer1"

\* The health responder appends its disclaimer to whatever it returns.
Disclaimer ==
  "DISCLAIMER: This information is for general knowledge only and does "
  \o "not constitute professional medical advice. Please consult with "
  \o "qualified healthcare professionals for any health concerns or before "
  \o "making any decisions related to your health or treatment."

\* The subject each responder names in its apology.
AgentSubject ==
  [ weather |-> "weather", sports |-> "sports", news |-> "news",
    stocks |-> "stock market", health |-> "health" ]

\* handleQuery returning the model's response.
okReply(agent, response) ==
  IF agent = "health" THEN response \o "\n\n" \o Disclaimer ELSE response

\* handleQuery's catch block: it returns, and names the error's message.
errorReply(agent, message) ==
  LET sorry == "Sorry, I couldn't retrieve " \o AgentSubject[agent]
                 \o " information at this time. Error: " \o message
  IN IF agent = "health" THEN sorry \o "\n\n" \o Disclaimer ELSE sorry

\* The responders whose model is taken to answer with empty text at times.
EmptyReplyAgents == {"sports"}

\* What a responder's handleQuery may return when something went wrong: its
\* model call failed, or the model answered with empty text.
FaultyReplies(agent) ==
  {errorReply(agent, LLMError)} \cup
  (IF agent \in EmptyReplyAgents THEN {okReply(agent, "")} ELSE {})

\* What the synthesis model may answer (synthesisNode's callOpenAI).
SynthesisOutputs == {"synthesis1", ""}

(***************************************************************************)
(* agentResponses: a JavaScript object, i.e. a map that keeps its string   *)
(* keys in insertion order.  Modelled as a sequence of <<key, value>>.     *)
(***************************************************************************)
Keys(m) == [i \in 1..Len(m) |-> m[i][1]]

KeySet(m) == {m[i][1] : i \in 1..Len(m)}

\* m[k], undefined when absent
Get(m, k) ==
  IF k \in KeySet(m)
    THEN m[CHOOSE i \in 1..Len(m) : m[i][1] = k][2]
    ELSE Null

\* { ...m, [k]: v }
Put(m, k, v) ==
  IF k \in KeySet(m)
    THEN [i \in 1..Len(m) |-> IF m[i][1] = k THEN <<k, v>> ELSE m[i]]
    ELSE Append(m, <<k, v>>)

\* x || dflt for strings
OrElse(x, dflt) == IF x = Null \/ x = "" THEN dflt ELSE x

(***************************************************************************)
(* History                                                                 *)
(***************************************************************************)
\* Variant: the agent tag left off the entry.
Entry_untagged(role, content, agent) ==
  [role |-> role, content |-> content, agent |-> Null]

\* An entry of history; agent is Null where the code gives none.
Entry(role, content, agent) ==
  [role |-> role, content |-> content, agent |-> agent]

\* agentConsultationCount[agent] || 0
agentConsultationCount(h, agent) ==
  Cardinality({i \in 1..Len(h) : h[i].agent = agent})

\* Object.values(agentConsultationCount).reduce(...)
totalConsultations(h) ==
  Cardinality({i \in 1..Len(h) : h[i].agent # Null})

\* Responder executions so far that went wrong.
responderFaults(h) ==
  Cardinality({i \in 1..Len(h) :
     h[i].role = "agent" /\ h[i].content # okReply(h[i].agent, LLMAnswer)})

\* What the responder's handleQuery may return in the current state.
AgentAnswers(agent) ==
  {okReply(agent, LLMAnswer)} \cup
  (IF responderFaults(history) < MaxResponderFaults
     THEN FaultyReplies(agent) ELSE {})

\* Variant: the per-agent cap one too high.
maxConsultationsPerAgent_offByOne == 2 + 1

maxConsultationsPerAgent == 2

MaxTotalConsultations == 5

(***************************************************************************)
(* Graph: node names and edges (createAgentGraph)                          *)
(***************************************************************************)
\* The node registered for each responder id.
AgentNode ==
  [ weather |-> "weatherAgent", sports |-> "sportsAgent",
    news |-> "newsAgent", stocks |-> "stocksAgent",
    health |-> "healthAgent" ]

AgentNodes == {AgentNode[a] : a \in Agents}

Nodes == {"analyzer", "router", "evaluator", "synthesizer"} \cup AgentNodes

\* Variant: the key weather wired to the sports responder's node.
RouterTable_weatherToSports ==
  [ weather |-> "sportsAgent", sports |-> "sportsAgent",
    news |-> "newsAgent", stocks |-> "stocksAgent",
    health |-> "healthAgent" ]

\* Routing table of the router's conditional edge.
RouterTable == AgentNode

\* Variant: a reroute is sent back through the router.
EvaluatorTable_viaRouter ==
  [ weather |-> "router", sports |-> "router", news |-> "router",
    stocks |-> "router", health |-> "router", synthesize |-> "synthesizer" ]

\* Variant: the key of the synthesizer misspelt.
EvaluatorTable_synthesisKey ==
  [ weather |-> "weatherAgent", sports |-> "sportsAgent",
    news |-> "newsAgent", stocks |-> "stocksAgent",
    health |-> "healthAgent", synthesis |-> "synthesizer" ]

\* Routing table of the evaluator's conditional edge.
EvaluatorTable ==
  [ weather |-> "weatherAgent", sports |-> "sportsAgent",
    news |-> "newsAgent", stocks |-> "stocksAgent",
    health |-> "healthAgent", synthesize |-> "synthesizer" ]

\* Variant: the sports responder wired past the evaluator.
StaticEdges_sportsSkipsEvaluator ==
  [ analyzer |-> "router",
    weatherAgent |-> "evaluator", sportsAgent |-> "synthesizer",
    newsAgent |-> "evaluator", stocksAgent |-> "evaluator",
    healthAgent |-> "evaluator",
    synthesizer |-> "END" ]

\* The unconditional edges (addEdge).
StaticEdges ==
  [ analyzer |-> "router",
    weatherAgent |-> "evaluator", sportsAgent |-> "evaluator",
    newsAgent |-> "evaluator", stocksAgent |-> "evaluator",
    healthAgent |-> "evaluator",
    synthesizer |-> "END" ]

\* Helper function for router edges
getNextAgentFromTopic(t) == OrElse(t, "news")

\* Variant: the edge ignores needsRerouting and always returns the agent.
getNextAgentFromEvaluation_ignoresFlag(rerouting, agent) ==
  OrElse(agent, "news")

\* Variant: the edge names the synthesizer node, not its key in the table.
getNextAgentFromEvaluation_nodeName(rerouting, agent) ==
  IF rerouting THEN OrElse(agent, "news") ELSE "synthesizer"

\* Helper function for evaluator edges
getNextAgentFromEvaluation(rerouting, agent) ==
  IF rerouting THEN OrElse(agent, "news") ELSE "synthesize"

\* The engine schedules a node only below its visit bound; every node
\* appends exactly one history entry, after the initial user entry.
CanVisit ==
  IF other = <<>>
    THEN Len(history) < MaxVisits
    ELSE (Len(history) - 1) + (Len(other.history) - 1) < MaxInterleavedVisits

\* The external call made by the node that ran last: which collaborator,
\* what it was given, what it answered, whether it failed.
Call(kind, arg, out) ==
  [kind |-> kind, arg |-> arg, out |-> out, failed |-> FALSE]

FailedCall(kind) == [kind |-> kind, arg |-> Null, out |-> Null, failed |-> TRUE]

NoCall == [kind |-> "none", arg |-> Null, out |-> Null, failed |-> FALSE]

\* A conditional edge: the key the edge function returns is looked up in
\* the edge's table; a key the table lacks names no node and the
\* invocation fails.
resolveNext(table, key) ==
  IF key \in DOMAIN table THEN table[key] ELSE "error"

(***************************************************************************)
(* 1. analyzerNode                                                         *)
(***************************************************************************)
\* Variant: the test for stocks written before the test for news.
topicOf_stocksBeforeNews(response) ==
  LET cleanResponse == trim(toLowerCase(response)) IN
  IF includes(cleanResponse, AgentText.weather) THEN "weather"
  ELSE IF includes(cleanResponse, AgentText.sports) THEN "sports"
  ELSE IF includes(cleanResponse, AgentText.stocks) THEN "stocks"
  ELSE IF includes(cleanResponse, AgentText.news) THEN "news"
  ELSE IF includes(cleanResponse, AgentText.health) THEN "health"
  ELSE "news"

\* Variant: the default is the first topic of the chain.
topicOf_defaultWeather(response) ==
  LET cleanResponse == trim(toLowerCase(response)) IN
  IF includes(cleanResponse, AgentText.weather) THEN "weather"
  ELSE IF includes(cleanResponse, AgentText.sports) THEN "sports"
  ELSE IF includes(cleanResponse, AgentText.news) THEN "news"
  ELSE IF includes(cleanResponse, AgentText.stocks) THEN "stocks"
  ELSE IF includes(cleanResponse, AgentText.health) THEN "health"
  ELSE "weather"

\* The if / else-if chain over cleanResponse, default 'news'.
topicOf(response) ==
  LET cleanResponse == trim(toLowerCase(response)) IN
  IF includes(cleanResponse, AgentText.weather) THEN "weather"
  ELSE IF includes(cleanResponse, AgentText.sports) THEN "sports"
  ELSE IF includes(cleanResponse, AgentText.news) THEN "news"
  ELSE IF includes(cleanResponse, AgentText.stocks) THEN "stocks"
  ELSE IF includes(cleanResponse, AgentText.health) THEN "health"
  ELSE "news"

analyzerNode ==
  /\ pc = "analyzer"
  /\ CanVisit
  /\ \E response \in ClassifierOutputs :
       /\ topic' = topicOf(response)
       /\ history' = Append(history,
            Entry("system", "Query categorized as: " \o topicOf(response), Null))
       /\ lastCall' = Call("classifier", query, response)
  /\ pc' = StaticEdges["analyzer"]
  /\ UNCHANGED <<query, needsRerouting, agentResponses, finalResponse,
                 currentAgent, result>>
  /\ UNCHANGED <<agentInstances, reply, cancelled, other>>

\* Variant: the failed node is scheduled again.
nodeThrows_retry(node, kind) ==
  /\ pc = node
  /\ CanVisit
  /\ pc' = node
  /\ lastCall' = FailedCall(kind)
  /\ UNCHANGED <<query, topic, needsRerouting, agentResponses, finalResponse,
                 currentAgent, history, result>>
  /\ UNCHANGED <<agentInstances, reply, cancelled, other>>

\* callOpenAI throws inside a node: graph.invoke rejects.
nodeThrows(node, kind) ==
  /\ pc = node
  /\ CanVisit
  /\ pc' = "error"
  /\ lastCall' = FailedCall(kind)
  /\ UNCHANGED <<query, topic, needsRerouting, agentResponses, finalResponse,
                 currentAgent, history, result>>
  /\ UNCHANGED <<agentInstances, reply, cancelled, other>>

analyzerThrows == nodeThrows("analyzer", "classifier")

(***************************************************************************)
(* 2. routerNode                                                           *)
(***************************************************************************)
routerNode ==
  /\ pc = "router"
  /\ CanVisit
  /\ currentAgent' = topic
  /\ history' = Append(history,
       Entry("system", "Routing query to " \o topic \o " agent", Null))
  /\ pc' = resolveNext(RouterTable, getNextAgentFromTopic(topic))
  /\ lastCall' = NoCall
  /\ UNCHANGED <<query, topic, needsRerouting, agentResponses, finalResponse,
                 result>>
  /\ UNCHANGED <<agentInstances, reply, cancelled, other>>

(***************************************************************************)
(* 3. weatherNode, sportsNode, newsNode, stocksNode, healthNode            *)
(***************************************************************************)
\* const weatherAgent = new WeatherAgent(); ... : the fields each agent
\* object is constructed with.
AgentInstances ==
  [ weather |-> [name |-> "Weather Agent", description |->
                   "Provides information about weather conditions and forecasts"],
    sports  |-> [name |-> "Sports Agent", description |->
                   "Provides up-to-date sports information and scores"],
    news    |-> [name |-> "News Agent", description |->
                   "Provides breaking news and current events"],
    stocks  |-> [name |-> "Stocks Agent", description |->
                   "Provides real-time stock market information"],
    health  |-> [name |-> "Health & Fitness Agent", description |->
                   "Provides general health and fitness information"] ]

\* Variant: the agent object keeps the query it was last asked.
instanceAfterHandleQuery_keepsQuery(instance, q) ==
  [name |-> instance.name, description |-> instance.description,
   lastQuery |-> q]

\* The agent object after handleQuery: the method assigns no field of this.
instanceAfterHandleQuery(instance, q) == instance

\* No second run.
NoRun == <<>>

\* Variant: the patch without the spread of the earlier answers.
responderPatch_noSpread(m, agent, response) == <<<<agent, response>>>>

\* Variant: the spread written after the new answer, so that an earlier
\* answer under the same key overrides it.
responderPatch_spreadLast(m, agent, response) ==
  IF agent \in KeySet(m) THEN m ELSE <<<<agent, response>>>> \o m

\* agentResponses: { ...(state.agentResponses || {}), <agent>: response }
responderPatch(m, agent, response) == Put(m, agent, response)

agentNode(agent) ==
  /\ pc = AgentNode[agent]
  /\ CanVisit
  /\ \E response \in AgentAnswers(agent) :
       /\ agentResponses' = responderPatch(agentResponses, agent, response)
       /\ history' = Append(history, Entry("agent", response, agent))
       /\ lastCall' = Call("responder", query, response)
  /\ pc' = StaticEdges[AgentNode[agent]]
  /\ UNCHANGED <<query, topic, needsRerouting, finalResponse, currentAgent,
                 result>>
  /\ agentInstances' = [agentInstances EXCEPT ![agent] =
       instanceAfterHandleQuery(agentInstances[agent], query)]
  /\ UNCHANGED <<reply, cancelled, other>>

weatherNode == agentNode("weather")
sportsNode == agentNode("sports")
newsNode == agentNode("news")
stocksNode == agentNode("stocks")
healthNode == agentNode("health")

(***************************************************************************)
(* 4. evaluatorNode                                                        *)
(***************************************************************************)
\* Variant: the two caps joined by && in place of ||.
forceCompletion_bothCaps(h, agent) ==
  /\ totalConsultations(h) > MaxTotalConsultations
  /\ agentConsultationCount(h, OrElse(agent, "")) >= maxConsultationsPerAgent

\* Variant: the per-agent test written with > instead of >=.
forceCompletion_strictPerAgent(h, agent) ==
  \/ totalConsultations(h) > MaxTotalConsultations
  \/ agentConsultationCount(h, OrElse(agent, "")) > maxConsultationsPerAgent

\* The forced-completion test made before the judge is consulted.
forceCompletion(h, agent) ==
  \/ totalConsultations(h) > MaxTotalConsultations
  \/ agentConsultationCount(h, OrElse(agent, "")) >= maxConsultationsPerAgent

\* Variant: the judge's answer matched by substring, as the analyzer does.
isAgentName_bySubstring(cleanEvaluation) ==
  \E a \in Agents : includes(cleanEvaluation, AgentText[a])

\* ['weather', 'sports', 'news', 'stocks', 'health'].includes(cleanEvaluation)
isAgentName(cleanEvaluation) ==
  \E a \in Agents : AgentText[a] = cleanEvaluation

\* Variant: the comparison with the current agent left out.
differsFromCurrent_omitted(cleanEvaluation, agent) == TRUE

\* cleanEvaluation !== state.currentAgent
differsFromCurrent(cleanEvaluation, agent) == str(cleanEvaluation) # agent

\* Variant: the membership test in the list of agent names left out.
namesOtherAgent_noListCheck(cleanEvaluation, agent) ==
  /\ cleanEvaluation # CompleteText
  /\ differsFromCurrent(cleanEvaluation, agent)

\* The outer condition on the judge's answer.
namesOtherAgent(cleanEvaluation, agent) ==
  /\ cleanEvaluation # CompleteText
  /\ isAgentName(cleanEvaluation)
  /\ differsFromCurrent(cleanEvaluation, agent)

\* Variant: the comparison inverted.
targetAllowed_inverted(h, cleanEvaluation) ==
  agentConsultationCount(h, str(cleanEvaluation)) > maxConsultationsPerAgent

\* targetAgentConsultCount < maxConsultationsPerAgent
targetAllowed(h, cleanEvaluation) ==
  agentConsultationCount(h, str(cleanEvaluation)) < maxConsultationsPerAgent

\* needsRerouting as computed from the judge's answer.
rerouteDecision(h, agent, evaluation) ==
  LET cleanEvaluation == toLowerCase(trim(evaluation)) IN
  /\ namesOtherAgent(cleanEvaluation, agent)
  /\ targetAllowed(h, cleanEvaluation)

\* newAgent when needsRerouting
newAgentOf(evaluation) == str(toLowerCase(trim(evaluation)))

\* The prompt's variable parts.
evaluationPrompt ==
  [ query |-> query,
    agent |-> currentAgent,
    response |-> OrElse(Get(agentResponses, OrElse(currentAgent, "")), ""),
    consulted |-> Keys(agentResponses) ]

evaluatorNode ==
  /\ pc = "evaluator"
  /\ CanVisit
  /\ IF forceCompletion(history, currentAgent)
       THEN /\ needsRerouting' = FALSE
            /\ currentAgent' = currentAgent
            /\ history' = Append(history, Entry("system",
                 "Maximum agent consultations reached, proceeding with synthesis",
                 Null))
            /\ lastCall' = NoCall
       ELSE \E evaluation \in JudgeOutputs :
            LET rerouting == rerouteDecision(history, currentAgent, evaluation)
            IN
            /\ needsRerouting' = rerouting
            /\ currentAgent' =
                 IF rerouting THEN newAgentOf(evaluation) ELSE currentAgent
            /\ history' = Append(history, Entry("system",
                 IF rerouting
                   THEN "Response needs additional information from "
                          \o newAgentOf(evaluation) \o " agent"
                   ELSE "Response is complete",
                 Null))
            /\ lastCall' = Call("judge", evaluationPrompt, evaluation)
  /\ pc' = resolveNext(EvaluatorTable,
             getNextAgentFromEvaluation(needsRerouting', currentAgent'))
  /\ UNCHANGED <<query, topic, agentResponses, finalResponse, result>>
  /\ UNCHANGED <<agentInstances, reply, cancelled, other>>

evaluatorThrows ==
  /\ ~forceCompletion(history, currentAgent)
  /\ nodeThrows("evaluator", "judge")

(***************************************************************************)
(* 5. synthesisNode                                                        *)
(***************************************************************************)
\* Variant: the direct response taken whenever any answer is recorded.
useDirectResponse_whenAny(m) == Len(Keys(m)) >= 1

\* Variant: the length compared with 0.
useDirectResponse_whenEmpty(m) == Len(Keys(m)) = 0

\* Object.keys(state.agentResponses || {}).length === 1
useDirectResponse(m) == Len(Keys(m)) = 1

\* Variant: the entries listed latest first.
synthesisEntries_reversed(m) == [i \in 1..Len(m) |-> m[Len(m) + 1 - i]]

\* Variant: only the latest answer is handed on.
synthesisEntries_latestOnly(m) == <<m[Len(m)]>>

\* Object.entries(state.agentResponses || {}) as handed to the prompt.
synthesisEntries(m) == m

synthesisNode ==
  /\ pc = "synthesizer"
  /\ CanVisit
  /\ IF useDirectResponse(agentResponses)
       THEN LET agent == Keys(agentResponses)[1] IN
            /\ finalResponse' = Get(agentResponses, agent)
            /\ history' = Append(history, Entry("system",
                 "Using direct response from " \o agent \o " agent", Null))
            /\ lastCall' = NoCall
       ELSE \E synthesizedResponse \in SynthesisOutputs :
            /\ finalResponse' = synthesizedResponse
            /\ history' = Append(history, Entry("system",
                 "Synthesized response from multiple agents", Null))
            /\ lastCall' = Call("synthesis",
                 synthesisEntries(agentResponses), synthesizedResponse)
  /\ pc' = StaticEdges["synthesizer"]
  /\ UNCHANGED <<query, topic, needsRerouting, agentResponses, currentAgent,
                 result>>
  /\ UNCHANGED <<agentInstances, reply, cancelled, other>>

synthesisThrows ==
  /\ ~useDirectResponse(agentResponses)
  /\ nodeThrows("synthesizer", "synthesis")

(***************************************************************************)
(* processQuery                                                            *)
(***************************************************************************)
NoResponseMessage == "Sorry, I couldn't process your query."

ErrorMessage == "Sorry, an error occurred while processing your query."

\* Variant: the default taken only for a missing finalResponse (??).
processQueryReturn_nullish ==
  /\ pc = "END"
  /\ result' = IF finalResponse = Null THEN NoResponseMessage
                ELSE finalResponse
  /\ pc' = "returned"
  /\ UNCHANGED <<query, topic, needsRerouting, agentResponses, finalResponse,
                 currentAgent, history, lastCall>>
  /\ UNCHANGED <<agentInstances, reply, cancelled, other>>

\* return result.finalResponse || '...'
processQueryReturn ==
  /\ pc = "END"
  /\ result' = OrElse(finalResponse, NoResponseMessage)
  /\ pc' = "returned"
  /\ UNCHANGED <<query, topic, needsRerouting, agentResponses, finalResponse,
                 currentAgent, history, lastCall>>
  /\ UNCHANGED <<agentInstances, reply, cancelled, other>>

\* Variant: the catch block returns what the responders had answered.
processQueryCatch_returnsPartial ==
  /\ pc = "error"
  /\ result' = IF agentResponses # <<>>
                 THEN agentResponses[1][2]
                 ELSE "Sorry, an error occurred while processing your query."
  /\ pc' = "returned"
  /\ UNCHANGED <<query, topic, needsRerouting, agentResponses, finalResponse,
                 currentAgent, history, lastCall>>
  /\ UNCHANGED <<agentInstances, reply, cancelled, other>>

\* catch (error) { return '...' }
processQueryCatch ==
  /\ pc = "error"
  /\ result' = ErrorMessage
  /\ pc' = "returned"
  /\ UNCHANGED <<query, topic, needsRerouting, agentResponses, finalResponse,
                 currentAgent, history, lastCall>>
  /\ UNCHANGED <<agentInstances, reply, cancelled, other>>

\* Variant: finalResponse starts as the empty string.
Init_emptyFinal ==
  /\ query \in Queries
  /\ topic = Null
  /\ needsRerouting = FALSE
  /\ agentResponses = <<>>
  /\ finalResponse = ""
  /\ currentAgent = Null
  /\ history = <<Entry("user", query, Null)>>
  /\ pc = "analyzer"
  /\ lastCall = NoCall
  /\ result = Null
  /\ agentInstances = AgentInstances
  /\ reply = Null
  /\ cancelled = FALSE
  /\ other = NoRun

\* initialStateWithQuery, entry point "analyzer"
Init ==
  /\ query \in Queries
  /\ topic = Null
  /\ needsRerouting = FALSE
  /\ agentResponses = <<>>
  /\ finalResponse = Null
  /\ currentAgent = Null
  /\ history = <<Entry("user", query, Null)>>
  /\ pc = "analyzer"
  /\ lastCall = NoCall
  /\ result = Null
  /\ agentInstances = AgentInstances
  /\ reply = Null
  /\ cancelled = FALSE
  /\ other = NoRun

Next ==
  \/ analyzerNode
  \/ analyzerThrows
  \/ routerNode
  \/ weatherNode
  \/ sportsNode
  \/ newsNode
  \/ stocksNode
  \/ healthNode
  \/ evaluatorNode
  \/ evaluatorThrows
  \/ synthesisNode
  \/ synthesisThrows
  \/ processQueryReturn
  \/ processQueryCatch

Spec == Init /\ [][Next]_vars

\* Every await of the run eventually settles and the event loop then runs
\* the continuation.
FairSpec == Spec /\ WF_vars(Next)

(***************************************************************************)
(* Two invocations of processQuery in one process.  Each await of a run    *)
(* lets the other run proceed; the run that proceeds is the one in the     *)
(* foreground, the other is kept in other.  Each call builds its own graph *)
(* and its own initial state; the agent objects are the module's.          *)
(***************************************************************************)
OtherQueries == {"q2"}

\* A run as processQuery starts it: initialStateWithQuery, entry point
\* "analyzer".
newRun(q) ==
  [ query |-> q, topic |-> Null, needsRerouting |-> FALSE,
    agentResponses |-> <<>>, finalResponse |-> Null, currentAgent |-> Null,
    history |-> <<Entry("user", q, Null)>>,
    pc |-> "analyzer", lastCall |-> NoCall, result |-> Null ]

\* The foreground run, as a record.
thisRun ==
  [ query |-> query, topic |-> topic, needsRerouting |-> needsRerouting,
    agentResponses |-> agentResponses, finalResponse |-> finalResponse,
    currentAgent |-> currentAgent, history |-> history,
    pc |-> pc, lastCall |-> lastCall, result |-> result ]

\* The event loop turns to the other run.
switchRun ==
  /\ other # NoRun
  /\ other' = thisRun
  /\ query' = other.query
  /\ topic' = other.topic
  /\ needsRerouting' = other.needsRerouting
  /\ agentResponses' = other.agentResponses
  /\ finalResponse' = other.finalResponse
  /\ currentAgent' = other.currentAgent
  /\ history' = other.history
  /\ pc' = other.pc
  /\ lastCall' = other.lastCall
  /\ result' = other.result
  /\ UNCHANGED <<agentInstances, reply, cancelled>>

TwoRunInit ==
  /\ query \in Queries
  /\ topic = Null
  /\ needsRerouting = FALSE
  /\ agentResponses = <<>>
  /\ finalResponse = Null
  /\ currentAgent = Null
  /\ history = <<Entry("user", query, Null)>>
  /\ pc = "analyzer"
  /\ lastCall = NoCall
  /\ result = Null
  /\ agentInstances = AgentInstances
  /\ reply = Null
  /\ cancelled = FALSE
  /\ other \in {newRun(q) : q \in OtherQueries}

TwoRunNext ==
  \/ Next
  \/ switchRun

TwoRunSpec == TwoRunInit /\ [][TwoRunNext]_vars

(***************************************************************************)
(* The /api/query endpoint: the handler awaits processQuery and answers    *)
(* with the response and a topic it reads off the response's text.  The    *)
(* handler answers 400 to a body without a query before it calls           *)
(* processQuery; a run here is one it did call.  Its catch block (500) is  *)
(* never entered: processQuery catches whatever the graph throws.          *)
(***************************************************************************)
\* toLowerCase of one character
lowerChar(c) ==
  IF \E k \in 1..26 : UpperCase[k] = c
    THEN LowerCase[CHOOSE k \in 1..26 : UpperCase[k] = c]
    ELSE c

\* toLowerCase of a string, half by half
RECURSIVE lowerString(_)
lowerString(text) ==
  IF Len(text) = 0 THEN ""
  ELSE IF Len(text) = 1 THEN lowerChar(text)
  ELSE LET half == Len(text) \div 2
       IN lowerString(SubSeq(text, 1, half))
            \o lowerString(SubSeq(text, half + 1, Len(text)))

\* The alternatives of topicRegex, in the order written.
TopicWords == <<"weather", "sports", "news", "stocks", "health">>

\* The word stands at position i of the text, which is in lower case.
matchesAt(text, i, word) ==
  /\ i + Len(word) - 1 <= Len(text)
  /\ SubSeq(text, i, i + Len(word) - 1) = word

\* response.match(topicRegex): the leftmost match, and there the first
\* alternative that matches; null when there is none.  The flag i makes
\* the match one of the text in lower case.
topicMatch(response) ==
  LET text == lowerString(response)
      hits == {i \in 1..Len(text) :
                 \E w \in 1..Len(TopicWords) :
                   matchesAt(text, i, TopicWords[w])}
  IN IF hits = {} THEN Null
     ELSE LET i == CHOOSE i \in hits : \A j \in hits : i <= j
              w == CHOOSE w \in 1..Len(TopicWords) :
                     /\ matchesAt(text, i, TopicWords[w])
                     /\ \A v \in 1..(w - 1) :
                          ~matchesAt(text, i, TopicWords[v])
          IN SubSeq(response, i, i + Len(TopicWords[w]) - 1)

\* topicMatch ? topicMatch[0].toLowerCase() : 'general'
topicOfResponse(response) ==
  IF topicMatch(response) # Null
    THEN lowerString(topicMatch(response)) ELSE "general"

\* res.json({ response, topic })
apiQueryRespond ==
  /\ pc = "returned"
  /\ reply' = [response |-> result, topic |-> topicOfResponse(result)]
  /\ pc' = "responded"
  /\ UNCHANGED <<query, topic, needsRerouting, agentResponses, finalResponse,
                 currentAgent, history, lastCall, result>>
  /\ UNCHANGED <<agentInstances, cancelled, other>>

\* The caller gives up on its request, by closing the connection or when
\* its own timeout expires.  The handler listens for neither, and
\* processQuery hands graph.invoke an empty config, without a signal.
callerCancels ==
  /\ pc # "responded"
  /\ ~cancelled
  /\ cancelled' = TRUE
  /\ UNCHANGED <<run, agentInstances, reply, other>>

ApiNext ==
  \/ Next
  \/ apiQueryRespond
  \/ callerCancels

\* One request to /api/query.
ApiSpec == Init /\ [][ApiNext]_vars

(***************************************************************************)
(* selectAgent (src/src/services/agentSelector.ts): a function of the      *)
(* query's text alone.  It is applied to queries of one or two words.      *)
(***************************************************************************)
SelectWords ==
  { "weather", "Sports", "NEWS", "breaking", "stock", "Market", "fitness",
    "health", "hello", "music" }

SelectQueries ==
  SelectWords \cup {a \o " " \o b : a, b \in SelectWords}

\* The if / else-if chain over lowerCaseQuery; the last branch throws.
selectAgentOf(q) ==
  LET lowerCaseQuery == lowerString(q) IN
  IF includes(lowerCaseQuery, "weather")
    THEN [returned |-> "WeatherAgent"]
  ELSE IF includes(lowerCaseQuery, "sports")
    THEN [returned |-> "SportsAgent"]
  ELSE IF includes(lowerCaseQuery, "news")
          \/ includes(lowerCaseQuery, "breaking")
    THEN [returned |-> "NewsAgent"]
  ELSE IF includes(lowerCaseQuery, "stock")
          \/ includes(lowerCaseQuery, "market")
    THEN [returned |-> "StocksAgent"]
  ELSE IF includes(lowerCaseQuery, "fitness")
          \/ includes(lowerCaseQuery, "health")
    THEN [returned |-> "HealthAgent"]
  ELSE [thrown |-> "No suitable agent found for the query."]

selectAgent ==
  /\ pc = "selectAgent"
  /\ result' = selectAgentOf(query)
  /\ pc' = IF "thrown" \in DOMAIN selectAgentOf(query)
             THEN "thrown" ELSE "returned"
  /\ UNCHANGED <<query, topic, needsRerouting, agentResponses, finalResponse,
                 currentAgent, history, lastCall>>
  /\ UNCHANGED <<agentInstances, reply, cancelled, other>>

\* selectAgent about to be called with a query; no run of the graph.
SelectInit ==
  /\ query \in SelectQueries
  /\ pc = "selectAgent"
  /\ topic = Null
  /\ needsRerouting = FALSE
  /\ agentResponses = <<>>
  /\ finalResponse = Null
  /\ currentAgent = Null
  /\ history = <<>>
  /\ lastCall = NoCall
  /\ result = Null
  /\ agentInstances = AgentInstances
  /\ reply = Null
  /\ cancelled = FALSE
  /\ other = NoRun

SelectNext == selectAgent

SelectSpec == SelectInit /\ [][SelectNext]_vars

(***************************************************************************)
(* analyzeQuery (services/queryAnalyzer.ts), applied to the query before   *)
(* the graph's analyzer node is                                            *)
(***************************************************************************)
\* What the classifier may answer: the outputs above, single words in
\* several spellings, and two of them with a space between.
AnalyzeWords ==
  { AgentText.weather,
    <<" ","S","p","o","r","t","s","\n">>,
    AgentText.news,
    <<"S","T","O","C","K","S">>,
    AgentText.health,
    <<"H","e","a","l","t","h">>,
    <<"n","e","w">>,
    <<"s","t","o","c","k">>,
    <<"o","t","h","e","r">>,
    <<>> }

AnalyzeOutputs ==
  ClassifierOutputs \cup AnalyzeWords
    \cup {a \o <<" ">> \o b : a, b \in AnalyzeWords}

\* Variant: the response is trimmed but not lower-cased.
analyzeQueryOf_caseSensitive(response) ==
  LET cleanResponse == trim(response) IN
  IF includes(cleanResponse, AgentText.weather) THEN "weather"
  ELSE IF includes(cleanResponse, AgentText.sports) THEN "sports"
  ELSE IF includes(cleanResponse, AgentText.news) THEN "news"
  ELSE IF includes(cleanResponse, AgentText.stocks) THEN "stocks"
  ELSE IF includes(cleanResponse, AgentText.health) THEN "health"
  ELSE "news"

\* response.toLowerCase().trim(), then the five tests, each returning at
\* once, and the default.
analyzeQueryOf(response) ==
  LET cleanResponse == trim(toLowerCase(response)) IN
  IF includes(cleanResponse, AgentText.weather) THEN "weather"
  ELSE IF includes(cleanResponse, AgentText.sports) THEN "sports"
  ELSE IF includes(cleanResponse, AgentText.news) THEN "news"
  ELSE IF includes(cleanResponse, AgentText.stocks) THEN "stocks"
  ELSE IF includes(cleanResponse, AgentText.health) THEN "health"
  ELSE "news"

\* The try block: the classifier answers.
analyzeQuery ==
  /\ pc = "analyzeQuery"
  /\ \E response \in AnalyzeOutputs :
       /\ result' = analyzeQueryOf(response)
       /\ lastCall' = Call("classifier", query, response)
  /\ pc' = "analyzer"
  /\ UNCHANGED <<query, topic, needsRerouting, agentResponses, finalResponse,
                 currentAgent, history>>
  /\ UNCHANGED <<agentInstances, reply, cancelled, other>>

\* catch (error) { return 'news' }: callOpenAI threw.
analyzeQueryCatch ==
  /\ pc = "analyzeQuery"
  /\ result' = "news"
  /\ lastCall' = FailedCall("classifier")
  /\ pc' = "analyzer"
  /\ UNCHANGED <<query, topic, needsRerouting, agentResponses, finalResponse,
                 currentAgent, history>>
  /\ UNCHANGED <<agentInstances, reply, cancelled, other>>

\* analyzeQuery about to be called with the query a run starts with.
AnalyzeInit ==
  /\ query \in Queries
  /\ pc = "analyzeQuery"
  /\ topic = Null
  /\ needsRerouting = FALSE
  /\ agentResponses = <<>>
  /\ finalResponse = Null
  /\ currentAgent = Null
  /\ history = <<Entry("user", query, Null)>>
  /\ lastCall = NoCall
  /\ result = Null
  /\ agentInstances = AgentInstances
  /\ reply = Null
  /\ cancelled = FALSE
  /\ other = NoRun

AnalyzeNext ==
  \/ analyzeQuery
  \/ analyzeQueryCatch
  \/ analyzerNode
  \/ analyzerThrows

AnalyzeSpec == AnalyzeInit /\ [][AnalyzeNext]_vars

(***************************************************************************)
(* Derived views of a state                                                *)
(***************************************************************************)
\* The responder ids in the order their nodes executed.
RECURSIVE executedIn(_)
executedIn(h) ==
  IF h = <<>> THEN <<>>
  ELSE IF Head(h).agent # Null
    THEN <<Head(h).agent>> \o executedIn(Tail(h))
    ELSE executedIn(Tail(h))

executed == executedIn(history)

TypeOK ==
  /\ query \in Queries
  /\ topic \in Agents \cup {Null}
  /\ needsRerouting \in BOOLEAN
  /\ currentAgent \in Agents \cup {Null}
  /\ pc \in Nodes \cup {"END", "error", "returned", "responded"}

\* The visit bound never stops a run.
MaxVisitsNotReached == pc \in Nodes => CanVisit

(***************************************************************************)
(* Vocabulary of the properties.  These read the run's record (history,    *)
(* lastCall, pc) directly and use none of the evaluator's own operators.   *)
(***************************************************************************)
\* How often a responder's node has executed.
timesExecuted(agent) ==
  Cardinality({i \in 1..Len(executed) : executed[i] = agent})

distinctExecuted == {executed[i] : i \in 1..Len(executed)}

\* The answer the responder's node last returned, as history records it.
lastAnswerOf(agent) ==
  history[CHOOSE i \in 1..Len(history) :
            /\ history[i].agent = agent
            /\ \A j \in (i + 1)..Len(history) : history[j].agent # agent].content

lastEntry == history[Len(history)]

\* The call was the evaluator consulting the judge, which answered.
answeredByJudge(call) == call.kind = "judge" /\ ~call.failed

\* The judge's answer, trimmed and lower-cased, as a string.
saidIn(call) == str(toLowerCase(trim(call.out)))

\* The same of the node that ran last.
judgeAnswered == answeredByJudge(lastCall)

judgeSaid == saidIn(lastCall)

\* No responder id occurs twice in a row.
noImmediateRepeat(seq) == \A i \in 1..(Len(seq) - 1) : seq[i] # seq[i + 1]

\* C1: in any run the responder nodes execute at most 5 times in total.
C1_AtMostFiveResponderRuns == Len(executed) <= 5

\* What the graph does instead: at most 6 responder executions.
AtMostSixResponderRuns == Len(executed) <= 6

\* C2: every run terminates: it reaches END through the synthesizer or
\* aborts with an error, whatever the classifier and the judge answer.
C2_RunTerminates == <>(pc \in {"END", "error"})

\* A run that went round the evaluator loop as often as it can, and ended.
C2_Witness == pc = "END" /\ Len(executed) = 6

\* C3: in every reachable state each responder has executed at most twice.
C3_PerResponderBound == \A a \in Agents : timesExecuted(a) <= 2

C3_Witness == \E a \in Agents : timesExecuted(a) = 2

\* C4: when the evaluator runs with 5 or more responder executions recorded
\* it sets needsRerouting = false without calling the judge and the
\* synthesizer is next.
C4_GlobalCapAtFive ==
  [][(pc = "evaluator" /\ Len(executed) >= 5)
       => (/\ needsRerouting' = FALSE
           /\ lastCall'.kind # "judge"
           /\ pc' = "synthesizer")]_vars

\* C5: when the evaluator runs and currentAgent has executed 2 times, it
\* sets needsRerouting = false without calling the judge and the
\* synthesizer is next.
C5_PerResponderHardStop ==
  [][(pc = "evaluator" /\ timesExecuted(currentAgent) >= 2)
       => (/\ needsRerouting' = FALSE
           /\ lastCall'.kind # "judge"
           /\ pc' = "synthesizer")]_vars

C5_Witness ==
  /\ pc = "synthesizer"
  /\ timesExecuted(currentAgent) = 2
  /\ lastCall.kind = "none"
  /\ needsRerouting = FALSE

\* C6: a judge answer that, trimmed and lower-cased, is not exactly one of
\* the five responder ids makes the evaluator set needsRerouting = false,
\* keep currentAgent, and go to the synthesizer.
C6_UnrecognizedJudgeOutput ==
  [][(pc = "evaluator" /\ answeredByJudge(lastCall') /\ saidIn(lastCall') \notin Agents)
       => (/\ needsRerouting' = FALSE
           /\ currentAgent' = currentAgent
           /\ pc' = "synthesizer")]_vars

C6_Witness ==
  /\ judgeAnswered
  /\ judgeSaid \notin Agents \cup {"complete"}
  /\ pc = "synthesizer"

\* C7: a judge answer naming the responder that just ran is treated as
\* complete, and no responder node ever executes twice in a row.
C7_NoImmediateRepeat ==
  [][/\ (pc = "evaluator" /\ answeredByJudge(lastCall') /\ saidIn(lastCall') = currentAgent)
          => (needsRerouting' = FALSE /\ pc' = "synthesizer")
     /\ noImmediateRepeat(executedIn(history'))]_vars

C7_Witness ==
  /\ judgeAnswered
  /\ judgeSaid = currentAgent
  /\ pc = "synthesizer"
  /\ Len(executed) >= 2

\* C8: when the judge is consulted and its normalized answer is a known
\* responder id other than currentAgent that has executed fewer than 2
\* times, the evaluator sets currentAgent to it, needsRerouting = true, and
\* that responder's node is next.
C8_AcceptedReroute ==
  [][(/\ pc = "evaluator"
      /\ answeredByJudge(lastCall')
      /\ saidIn(lastCall') \in Agents
      /\ saidIn(lastCall') # currentAgent
      /\ timesExecuted(saidIn(lastCall')) < 2)
       => (/\ currentAgent' = saidIn(lastCall')
           /\ needsRerouting' = TRUE
           /\ pc' = AgentNode[saidIn(lastCall')])]_vars

C8_Witness ==
  /\ judgeAnswered
  /\ needsRerouting
  /\ pc = AgentNode[judgeSaid]
  /\ timesExecuted(judgeSaid) = 1

\* C9: the key set of agentResponses only grows, across every step.
C9_ResponseKeysMonotonic ==
  [][KeySet(agentResponses) \subseteq KeySet(agentResponses')]_vars

C9_Witness ==
  /\ pc = "returned"
  /\ Cardinality(KeySet(agentResponses)) >= 3
  /\ KeySet(agentResponses) = distinctExecuted

\* C10: with exactly one distinct responder consulted, the synthesizer
\* makes no synthesis call and finalResponse is that responder's answer.
C10_Passthrough ==
  [][(pc = "synthesizer" /\ Cardinality(distinctExecuted) = 1)
       => (/\ lastCall'.kind # "synthesis"
           /\ pc' = "END"
           /\ finalResponse' = lastAnswerOf(executed[1]))]_vars

C10_Witness ==
  /\ pc = "END"
  /\ Cardinality(distinctExecuted) = 1
  /\ finalResponse = lastAnswerOf(executed[1])
  /\ lastCall.kind = "none"

\* The responder ids in the order each first executed.
RECURSIVE firstExecutions(_)
firstExecutions(seq) ==
  IF seq = <<>> THEN <<>>
  ELSE LET front == firstExecutions(SubSeq(seq, 1, Len(seq) - 1))
           last == seq[Len(seq)]
       IN IF \E i \in 1..Len(front) : front[i] = last
            THEN front ELSE Append(front, last)

\* C11: when the synthesizer runs with answers of two or more distinct
\* responders recorded, it calls the synthesis collaborator, once, and
\* finalResponse is what the collaborator answered; the run then ends.
C11_SynthesisWhenSeveral ==
  [][(pc = "synthesizer" /\ Cardinality(distinctExecuted) >= 2)
       => (/\ lastCall'.kind = "synthesis"
           /\ pc' \in {"END", "error"}
           /\ ~lastCall'.failed =>
                (pc' = "END" /\ finalResponse' = lastCall'.out))]_vars

C11_Witness ==
  /\ pc = "END"
  /\ Cardinality(distinctExecuted) >= 2
  /\ lastCall.kind = "synthesis"
  /\ finalResponse = lastCall.out
  /\ finalResponse = "synthesis1"

\* C12: the (responder id, answer) pairs handed to the synthesis
\* collaborator are in the order of the responders' first executions; a
\* responder that executed twice keeps its first position.
C12_SynthesisOrder ==
  (lastCall.kind = "synthesis" /\ ~lastCall.failed)
    => [i \in 1..Len(lastCall.arg) |-> lastCall.arg[i][1]]
         = firstExecutions(executed)

C12_Witness ==
  /\ lastCall.kind = "synthesis"
  /\ ~lastCall.failed
  /\ Len(executed) = 4
  /\ executed[4] = executed[2]
  /\ [i \in 1..Len(lastCall.arg) |-> lastCall.arg[i][1]]
       = SubSeq(executed, 1, 3)

\* The text contains none of the five topic words, in any letter case.
noTopicWord(text) ==
  \A a \in Agents : ~includes(toLowerCase(text), AgentText[a])

\* C13: a classifier answer containing none of the five topic words sets
\* topic to "news"; topic is not changed afterwards and the first
\* responder executed is the one topic names, so it is the news responder.
C13_FallbackToNews ==
  [][/\ (/\ pc = "analyzer"
         /\ lastCall'.kind = "classifier"
         /\ ~lastCall'.failed
         /\ noTopicWord(lastCall'.out)) => topic' = "news"
     /\ topic # Null => topic' = topic
     /\ LET e == executedIn(history') IN e # <<>> => e[1] = topic']_vars

C13_Witness ==
  /\ lastCall.kind = "classifier"
  /\ ~lastCall.failed
  /\ noTopicWord(lastCall.out)
  /\ lastCall.out # <<>>
  /\ topic = "news"
  /\ pc = "router"

\* C14: the keys of agentResponses are known responder ids; currentAgent
\* is null or a known responder id, and once non-null stays a known id.
C14_KnownIdsOnly ==
  /\ [](/\ KeySet(agentResponses) \subseteq Agents
        /\ currentAgent \in Agents \cup {Null})
  /\ [][currentAgent # Null => currentAgent' \in Agents]_vars

C14_Witness ==
  /\ needsRerouting
  /\ currentAgent \in Agents
  /\ currentAgent # topic
  /\ KeySet(agentResponses) # {}
  /\ lastCall.kind = "judge"

\* The entries of a history tagged with the agent.
taggedWith(h, agent) == Cardinality({i \in 1..Len(h) : h[i].agent = agent})

isPrefix(h1, h2) == Len(h1) <= Len(h2) /\ SubSeq(h2, 1, Len(h1)) = h1

\* C15: every step keeps the previous history as a prefix of the new one,
\* and adds one entry tagged X exactly when X's node is the one that runs.
C15_HistoryAppendOnly ==
  [][/\ isPrefix(history, history')
     /\ \A a \in Agents :
          taggedWith(history', a) =
            taggedWith(history, a) + (IF pc = AgentNode[a] THEN 1 ELSE 0)]_vars

C15_Witness ==
  /\ pc = "returned"
  /\ \E a \in Agents : taggedWith(history, a) = 2
  /\ Len(history) = 12

\* C16: finalResponse is null as long as the synthesizer has not run, and
\* no step other than the synthesizer's changes it.
C16_FinalResponseOnlyBySynthesizer ==
  /\ [](pc \in Nodes => finalResponse = Null)
  /\ [][pc # "synthesizer" => finalResponse' = finalResponse]_vars

C16_Witness ==
  /\ pc = "END"
  /\ finalResponse # Null
  /\ Len(executed) >= 2

\* The notes the evaluator appends to history.
evaluatorNotes ==
  { "Maximum agent consultations reached, proceeding with synthesis",
    "Response is complete" }
  \cup { "Response needs additional information from " \o a \o " agent" :
           a \in Agents }

\* In h every responder entry that has a successor is followed by one
\* evaluator note, and by no second one.
evaluatedOnce(h) ==
  \A i \in 1..(Len(h) - 1) :
    h[i].agent # Null =>
      /\ h[i + 1].agent = Null
      /\ h[i + 1].content \in evaluatorNotes
      /\ i + 2 <= Len(h) => h[i + 2].content \notin evaluatorNotes

\* C17: after a responder node the evaluator is the next node, and after
\* the evaluator comes a responder, the synthesizer or the abort, never the
\* evaluator again: each responder execution is followed by exactly one
\* evaluator execution before any other responder or the synthesizer.
C17_EvaluatorAfterEveryResponder ==
  [][/\ pc \in AgentNodes => pc' = "evaluator"
     /\ pc = "evaluator" => pc' \in AgentNodes \cup {"synthesizer", "error"}
     /\ evaluatedOnce(history')]_vars

C17_Witness ==
  /\ pc = "synthesizer"
  /\ Len(executed) >= 3
  /\ history[Len(history) - 1].agent # Null
  /\ lastEntry.content \in evaluatorNotes

\* C18: when a responder's node runs, the answer recorded under its id is
\* the answer it just gave, also when an earlier answer was recorded there,
\* and the answers recorded for the other responders are unchanged.
C18_LastWriteWins ==
  [][\A a \in Agents :
       pc = AgentNode[a] =>
         /\ Get(agentResponses', a) = history'[Len(history')].content
         /\ KeySet(agentResponses') = KeySet(agentResponses) \cup {a}
         /\ \A b \in Agents \ {a} :
              Get(agentResponses', b) = Get(agentResponses, b)]_vars

C18_Witness ==
  /\ lastCall.kind = "responder"
  /\ timesExecuted(lastEntry.agent) = 2
  /\ Get(agentResponses, lastEntry.agent) = lastEntry.content
  /\ \E i \in 1..(Len(history) - 1) :
       /\ history[i].agent = lastEntry.agent
       /\ history[i].content # lastEntry.content

\* C19: when a node's external call fails the run stops there: the failed
\* step leaves the state as it was, no node runs afterwards, and the only
\* step left is processQuery returning.
C19_AbortOnNodeError ==
  [][/\ (pc \in Nodes /\ lastCall'.failed) =>
          (pc' = "error" /\ history' = history)
     /\ pc = "error" =>
          /\ pc' = "returned"
          /\ history' = history
          /\ lastCall' = lastCall
          /\ agentResponses' = agentResponses
     /\ pc # "returned"]_vars

C19_Witness ==
  /\ pc = "returned"
  /\ lastCall.failed
  /\ lastCall.kind = "synthesis"
  /\ Len(executed) >= 2
  /\ lastEntry.content \in evaluatorNotes

\* C20: a run that aborted on a node error returns the fixed generic
\* message, whatever the responders had answered before.
C20_GenericMessageOnAbort ==
  (pc = "returned" /\ lastCall.failed)
    => result = "Sorry, an error occurred while processing your query."

C20_Witness ==
  /\ pc = "returned"
  /\ lastCall.failed
  /\ Len(agentResponses) >= 2
  /\ result = "Sorry, an error occurred while processing your query."
  /\ \A i \in 1..Len(agentResponses) : agentResponses[i][2] # result

\* C21: the response sent to the caller never contains the message of an
\* internal error, whichever external call of the run failed.
C21_NoErrorDetailInResponse ==
  pc = "responded" => ~includes(reply.response, LLMError)

\* The responder's node ran and its handleQuery had a call of its own fail.
responderFailed(call) ==
  /\ call.kind = "responder"
  /\ call.out \in {errorReply(a, LLMError) : a \in Agents}

\* C22: a failure inside a responder aborts the run at once: the evaluator
\* is not next and nothing is recorded in agentResponses for the failed
\* execution.
C22_ResponderFailureAborts ==
  [][(pc \in AgentNodes /\ responderFailed(lastCall'))
       => (pc' = "error" /\ agentResponses' = agentResponses)]_vars

\* The evaluator's note when a consultation cap stopped the loop.
capNote == "Maximum agent consultations reached, proceeding with synthesis"

capReached == \E i \in 1..Len(history) : history[i].content = capNote

\* C23: when a cap stops the loop the synthesizer is next; the run then
\* ends with finalResponse set, unless the synthesis call itself fails, and
\* processQuery returns its error message only in that case.
C23_CapIsSuccess ==
  capReached =>
    /\ lastEntry.content = capNote =>
         \/ pc = "synthesizer"
         \/ lastCall.failed /\ lastCall.kind = "synthesis"
    /\ pc \in {"synthesizer", "END", "error", "returned"}
    /\ pc = "error" => lastCall.failed /\ lastCall.kind = "synthesis"
    /\ pc = "END" => finalResponse # Null /\ ~lastCall.failed
    /\ (pc = "returned" /\ ~lastCall.failed) =>
         /\ finalResponse # Null
         /\ result # "Sorry, an error occurred while processing your query."

C23_Witness ==
  /\ pc = "returned"
  /\ capReached
  /\ finalResponse = "synthesis1"
  /\ result = "synthesis1"

\* The notes the evaluator wrote in the run, in order.
notesOfEvaluator ==
  LET entries == SelectSeq(history, LAMBDA e : e.content \in evaluatorNotes)
  IN [i \in 1..Len(entries) |-> entries[i].content]

needsNote(agent) ==
  "Response needs additional information from " \o agent \o " agent"

\* The classifier yielded weather; the judge asked for sports, then for
\* stocks, and then found the response complete.
weatherSportsStocks ==
  /\ topic = "weather"
  /\ notesOfEvaluator =
       <<needsNote("sports"), needsNote("stocks"), "Response is complete">>

\* C24: in that run the responders executed are weather, sports, stocks, in
\* that order and once each, and the synthesizer calls the synthesis
\* collaborator with the three answers.
C24_WeatherSportsStocks ==
  weatherSportsStocks =>
    /\ executed = <<"weather", "sports", "stocks">>
    /\ pc # "synthesizer" =>
         /\ lastCall.kind = "synthesis"
         /\ ~lastCall.failed =>
              lastCall.arg =
                [i \in 1..3 |-> <<executed[i], lastAnswerOf(executed[i])>>]

C24_Witness ==
  /\ weatherSportsStocks
  /\ pc = "END"
  /\ lastCall.kind = "synthesis"
  /\ Len(lastCall.arg) = 3
  /\ finalResponse = "synthesis1"

\* C25: the result returned to the caller of a completed run contains
\* agentsConsulted, the distinct responder ids in the order they executed.
C25_AgentsConsultedReturned ==
  (pc = "responded" /\ ~lastCall.failed) =>
    /\ "agentsConsulted" \in DOMAIN reply
    /\ reply.agentsConsulted = firstExecutions(executed)

\* C26: whenever a conditional edge is resolved the edge function returns
\* a key of that edge's routing table, and the node under that key is next:
\* one of the five topic keys after the router, one of the five responder
\* keys or "synthesize" after the evaluator.
C26_EdgeKeysInTable ==
  [][/\ pc = "router" =>
          LET key == getNextAgentFromTopic(topic') IN
          /\ key \in {"weather", "sports", "news", "stocks", "health"}
          /\ key \in DOMAIN RouterTable
          /\ pc' = RouterTable[key]
     /\ (pc = "evaluator" /\ ~lastCall'.failed) =>
          LET key == getNextAgentFromEvaluation(needsRerouting', currentAgent')
          IN
          /\ key \in {"weather", "sports", "news", "stocks", "health",
                       "synthesize"}
          /\ key \in DOMAIN EvaluatorTable
          /\ pc' = EvaluatorTable[key]]_vars

C26_Witness ==
  /\ lastCall.kind = "judge"
  /\ getNextAgentFromEvaluation(needsRerouting, currentAgent) = "stocks"
  /\ pc = EvaluatorTable["stocks"]
  /\ getNextAgentFromTopic(topic) = "health"

\* C28: once the caller has cancelled the run, or its timeout has expired,
\* no further node runs, and neither processQuery nor the handler hands a
\* response on.
C28_NothingAfterCancellation ==
  [][cancelled =>
       /\ history' = history
       /\ finalResponse' = finalResponse
       /\ result' = result
       /\ reply' = reply]_vars

\* C29: the topic the /api/query handler returns for a run that completed
\* is the topic the analyzer classified.
C29_TopicOfReply ==
  (pc = "responded" /\ ~lastCall.failed) => reply.topic = topic

\* What a run hands on and records is its own query.
ownData(r) ==
  /\ r.history[1] = [role |-> "user", content |-> r.query, agent |-> Null]
  /\ (r.lastCall.kind \in {"classifier", "responder"} /\ ~r.lastCall.failed)
       => r.lastCall.arg = r.query
  /\ (r.lastCall.kind = "judge" /\ ~r.lastCall.failed)
       => r.lastCall.arg.query = r.query

\* C27: two runs of processQuery that interleave are isolated.  Every step
\* is a step of one run and leaves the other run's topic, agentResponses,
\* history, currentAgent and finalResponse as they were, or it is the event
\* loop turning from one run to the other, which changes neither; no step
\* changes the agent objects the runs share, and each run carries its own
\* query only.
C27_RunsIsolated ==
  /\ [](ownData(thisRun) /\ ownData(other) /\ query # other.query)
  /\ [][/\ agentInstances' = agentInstances
        /\ \/ other' = other
           \/ other' = thisRun /\ thisRun' = other]_vars

C27_Witness ==
  /\ other # NoRun
  /\ pc = "evaluator"
  /\ other.pc = "evaluator"
  /\ lastEntry.agent = other.history[Len(other.history)].agent
  /\ lastEntry.content # other.history[Len(other.history)].content

\* The words selectAgent looks for.
SelectKeywords ==
  { "weather", "sports", "news", "breaking", "stock", "market", "fitness",
    "health" }

\* C30: selectAgent returns a responder for every query, and for a query
\* that contains none of its keywords it returns the news responder.
C30_SelectAgentFallsBack ==
  pc # "selectAgent" =>
    /\ pc = "returned"
    /\ result.returned \in {"WeatherAgent", "SportsAgent", "NewsAgent",
                            "StocksAgent", "HealthAgent"}
    /\ (\A w \in SelectKeywords : ~includes(lowerString(query), w))
         => result.returned = "NewsAgent"

\* The five topic words in the order of their priority.
TopicPriority == <<"weather", "sports", "news", "stocks", "health">>

\* The places in TopicPriority of the topic words the text contains.
topicWordsIn(text) ==
  {i \in 1..5 : includes(toLowerCase(text), AgentText[TopicPriority[i]])}

\* Where a word first stands in a text that contains it.
firstPlace(text, word) ==
  CHOOSE i \in 0..Len(text) :
    /\ SubSeq(text, i + 1, i + Len(word)) = word
    /\ \A j \in 0..(i - 1) : SubSeq(text, j + 1, j + Len(word)) # word

\* C31: when the classifier's output contains several of the five topic
\* words, topic is the one that comes first in the order weather, sports,
\* news, stocks, health, wherever the words stand in the output.
C31_TopicByPriority ==
  (lastCall.kind = "classifier" /\ ~lastCall.failed
     /\ topicWordsIn(lastCall.out) # {})
    => \E i \in topicWordsIn(lastCall.out) :
         /\ topic = TopicPriority[i]
         /\ \A j \in topicWordsIn(lastCall.out) : i <= j

\* An output with stocks written before news: the topic is news.
C31_Witness ==
  /\ lastCall.kind = "classifier"
  /\ ~lastCall.failed
  /\ topicWordsIn(lastCall.out) = {3, 4}
  /\ firstPlace(toLowerCase(lastCall.out), AgentText.stocks)
       < firstPlace(toLowerCase(lastCall.out), AgentText.news)
  /\ topic = "news"

\* How many entries of history carry one of the notes.
notesAmong(notes) ==
  Cardinality({i \in 1..Len(history) :
                 history[i].agent = Null /\ history[i].content \in notes})

\* 1 when the node that ran last was stopped by the failure of such a call.
failedIn(kind) == IF lastCall.failed /\ lastCall.kind = kind THEN 1 ELSE 0

analyzerRuns ==
  notesAmong({"Query categorized as: " \o a : a \in Agents})
    + failedIn("classifier")

routerRuns == notesAmong({"Routing query to " \o a \o " agent" : a \in Agents})

evaluatorRuns == notesAmong(evaluatorNotes) + failedIn("judge")

\* The evaluator runs in which the judge was called.
judgeCalls == notesAmong(evaluatorNotes \ {capNote}) + failedIn("judge")

synthesizerRuns ==
  notesAmong({"Synthesized response from multiple agents"}
               \cup {"Using direct response from " \o a \o " agent" :
                        a \in Agents})
    + failedIn("synthesis")

\* The executions of responder nodes, each of which tags one entry.
responderRuns ==
  Cardinality({i \in 1..Len(history) : history[i].agent # Null})

\* The responder whose node executed last.
lastResponder ==
  history[CHOOSE i \in 1..Len(history) :
            /\ history[i].agent # Null
            /\ \A j \in (i + 1)..Len(history) : history[j].agent = Null].agent

nodesRun ==
  analyzerRuns + routerRuns + responderRuns + evaluatorRuns + synthesizerRuns

C33_GlobalCapNeverAlone ==
  (pc = "evaluator" /\ responderRuns > 5)
    => /\ currentAgent = lastResponder
       /\ taggedWith(history, currentAgent) >= 2

\* The evaluator about to run after a sixth responder execution.
C33_Witness ==
  /\ pc = "evaluator"
  /\ responderRuns = 6
  /\ taggedWith(history, currentAgent) = 2

\* C34: when the evaluator has called the judge, no responder has executed
\* more than once; and the judge naming a known responder other than the
\* current one is never turned down.
C34_JudgeSeesNoRepeat ==
  /\ lastCall.kind = "judge" => \A a \in Agents : taggedWith(history, a) <= 1
  /\ (judgeAnswered /\ judgeSaid \in Agents /\ ~needsRerouting)
       => judgeSaid = currentAgent

\* The judge named a responder that had run before, and the run went there.
C34_Witness ==
  /\ judgeAnswered
  /\ judgeSaid \in Agents
  /\ taggedWith(history, judgeSaid) = 1
  /\ needsRerouting
  /\ currentAgent = judgeSaid
  /\ pc = AgentNode[judgeSaid]

\* The responders that have executed twice or more.
repeated == {a \in Agents : taggedWith(history, a) >= 2}

\* C35: at most one responder executes twice, none more often, and its
\* second execution is the last responder execution of the run: what
\* follows is the evaluator, which stops the run without the judge, the
\* synthesizer and the end (or the abort of a failed synthesis call).
C35_SecondExecutionIsLast ==
  /\ Cardinality(repeated) <= 1
  /\ \A a \in repeated :
       /\ taggedWith(history, a) = 2
       /\ lastResponder = a
       /\ pc \in {"evaluator", "synthesizer", "END", "error", "returned",
                 "responded"}
       /\ pc # "evaluator" => /\ history[Len(history)].agent = Null
                              /\ capReached
                              /\ ~needsRerouting
                              /\ judgeCalls = responderRuns - 1

\* A responder has executed twice and the run has ended.
C35_Witness ==
  /\ pc = "returned"
  /\ repeated # {}
  /\ responderRuns < 6

\* C36: whenever the evaluator is about to run, the entry history ends with
\* was written by the responder currentAgent names, and agentResponses
\* holds that answer under currentAgent.
C36_EvaluatorSeesCurrentAnswer ==
  pc = "evaluator"
    => /\ currentAgent \in Agents
       /\ lastEntry.role = "agent"
       /\ lastEntry.agent = currentAgent
       /\ currentAgent \in KeySet(agentResponses)
       /\ Get(agentResponses, currentAgent) = lastEntry.content

\* The evaluator about to run on the answer of a responder it rerouted to.
C36_Witness ==
  /\ pc = "evaluator"
  /\ responderRuns = 2
  /\ currentAgent # topic
  /\ lastEntry.agent = currentAgent
  /\ Get(agentResponses, currentAgent) = lastEntry.content

\* The responder ids that tag an entry of history.
taggingAgents ==
  {history[i].agent : i \in 1..Len(history)} \ {Null}

\* C37: in every reachable state the keys of agentResponses are the
\* responder ids that tag at least one entry of history.
C37_KeysAreTaggingAgents == KeySet(agentResponses) = taggingAgents

\* Six executions of five responders: five keys.
C37_Witness ==
  /\ responderRuns = 6
  /\ KeySet(agentResponses) = Agents
  /\ taggingAgents = Agents

\* The analyzer, then the router, has completed.
pastAnalyzer == pc # "analyzer" /\ failedIn("classifier") = 0

pastRouter == pastAnalyzer /\ pc # "router"

\* C38: the analyzer and the router each execute exactly once in a run; the
\* node after the evaluator is never the router (nor the analyzer), and a
\* reroute the evaluator accepts leads to the node of the responder it
\* names; topic is never changed once the analyzer has set it.
C38_AnalyzerRouterOnce ==
  /\ [](/\ analyzerRuns <= 1
        /\ routerRuns <= 1
        /\ pc # "analyzer" => analyzerRuns = 1
        /\ pastRouter => routerRuns = 1
        /\ pastAnalyzer <=> topic # Null)
  /\ [][/\ topic # Null => topic' = topic
        /\ pc = "evaluator" => pc' \notin {"analyzer", "router"}
        /\ (pc = "evaluator" /\ answeredByJudge(lastCall') /\ needsRerouting')
             => pc' = AgentNode[currentAgent']]_vars

\* A run that was rerouted and ended, with one router note.
C38_Witness ==
  /\ pc = "returned"
  /\ ~lastCall.failed
  /\ responderRuns >= 2
  /\ analyzerRuns = 1
  /\ routerRuns = 1
  /\ history[2].content = "Query categorized as: " \o topic
  /\ history[3].content = "Routing query to " \o topic \o " agent"

\* C39: a run that completed without error returns finalResponse when it is
\* non-empty and the message "Sorry, I couldn't process your query."
\* otherwise; the empty string is never returned.
C39_EmptyResponseReplaced ==
  (pc = "returned" /\ ~lastCall.failed)
    => /\ finalResponse \notin {Null, ""} => result = finalResponse
       /\ finalResponse \in {Null, ""}
            => result = "Sorry, I couldn't process your query."
       /\ result # ""

\* The single responder answered with the empty string, which was passed
\* through as finalResponse and replaced by the message.
C39_Witness ==
  /\ pc = "returned"
  /\ ~lastCall.failed
  /\ responderRuns = 1
  /\ lastEntry.content = "Using direct response from " \o currentAgent \o " agent"
  /\ Get(agentResponses, currentAgent) = ""
  /\ finalResponse = ""
  /\ result = "Sorry, I couldn't process your query."

\* C40: for every output the classifier returns, analyzeQuery returns the
\* topic analyzerNode computes from that output, and analyzerNode sets the
\* topic analyzeQuery computes; when the classifier call fails,
\* analyzeQuery returns "news" and analyzerNode aborts the run with no
\* topic set.
C40_SameTopic ==
  /\ (pc = "analyzer" /\ lastCall.kind = "classifier" /\ ~lastCall.failed)
       => result = topicOf(lastCall.out)
  /\ (pc = "analyzer" /\ lastCall.failed) => result = "news"
  /\ pc = "router"
       => /\ lastCall.kind = "classifier"
          /\ ~lastCall.failed
          /\ topic = analyzeQueryOf(lastCall.out)
  /\ pc = "error"
       => /\ lastCall = FailedCall("classifier")
          /\ topic = Null
          /\ history = <<Entry("user", query, Null)>>

\* analyzeQuery returned a topic other than the default for an output that
\* is not a topic word as it stands.
C40_Witness ==
  /\ pc = "analyzer"
  /\ lastCall.kind = "classifier"
  /\ ~lastCall.failed
  /\ lastCall.out \notin {AgentText[a] : a \in Agents}
  /\ result = "stocks"

\* Both failures: analyzeQuery returned "news", analyzerNode aborted.
C40_FailureWitness ==
  /\ pc = "error"
  /\ result = "news"
  /\ topic = Null

====
